---- MODULE Spec2Model ----
(***************************************************************************)
(* Model of the must_future crate (src/src/lib.rs): the must-use wrappers  *)
(* MustFuture<F> and MustBoxFuture<'lt, T> around an inner future, their   *)
(* constructors, their poll delegation, their Debug output and their drop. *)
(*                                                                         *)
(* Three futures with the same behaviour exist side by side:               *)
(*   "d"  is held by the driver unwrapped and polled directly,             *)
(*   "w"  is wrapped by any one of the four constructors,                  *)
(*   "r"  is wrapped by MustBoxFuture::new (the reference for must_box).   *)
(* A future is identified by its name; a wrapper's sub_fut field holds the *)
(* name of the future it owns.                                             *)
(***************************************************************************)
EXTENDS Integers, Sequences, FiniteSets, TLC

VARIABLES
    input,    \* the behaviour of the inner futures: n Pending, then Ready(out)
    fut,      \* the state of each inner future F (the value behind sub_fut)
    held,     \* the futures the caller still owns unwrapped
    wrapper,  \* the wrapper values: struct MustFuture / MustBoxFuture
    ctor,     \* the constructor each wrapper was built with
    life,     \* each wrapper's lifetime: "unbuilt", "live", "dropped"
    wlog,     \* the Poll results the driver got from each future it polled
    last      \* the latest call: its arguments, its result, and the
              \* polls of an inner future made during it

vars == <<input, fut, held, wrapper, ctor, life, wlog, last>>

\* Largest number of Pending results an inner future gives before Ready.
MaxPending == 1

\* Largest number of polls the driver issues on one future.
MaxPolls == 3

\* The outputs of the inner futures of the tests.
Outputs == {"test1", "test2"}

\* What an inner future does when polled after it returned Ready; the Future
\* contract leaves it open (an async block panics, a fused future stays
\* Pending, other futures answer Ready again).
PostKinds == {"panic", "pending", "ready"}

\* The task contexts a driver may hand to poll.
Contexts == {"cx1", "cx2"}

Slots == {"d", "w", "r"}

WSlots == {"w", "r"}

Ctors(s) == IF s = "w" THEN {"from", "box_from", "new", "must_box"} ELSE {"new"}

(***************************************************************************)
(* std::task::Poll                                                         *)
(***************************************************************************)
Pending == [tag |-> "Pending", val |-> "-"]

Ready(v) == [tag |-> "Ready", val |-> v]

Panic == [tag |-> "Panic", val |-> "-"]

NoRet == [tag |-> "None", val |-> "-"]

(***************************************************************************)
(* The inner future F: n Pending results, then Ready(out).                 *)
(***************************************************************************)
NewFuture(n, out, post) ==
    [remaining |-> n, out |-> out, post |-> post, done |-> FALSE,
     polls |-> 0, drops |-> 0, loc |-> "stack"]

PostResult(f) ==
    CASE f.post = "panic" -> Panic
      [] f.post = "pending" -> Pending
      [] OTHER -> Ready(f.out)

\* <F as Future>::poll(p, cx): one step of the inner future.
InnerPoll(f, cx) ==
    IF f.done
    THEN [fut |-> [f EXCEPT !.polls = @ + 1], ret |-> PostResult(f)]
    ELSE IF f.remaining > 0
         THEN [fut |-> [f EXCEPT !.remaining = @ - 1, !.polls = @ + 1],
               ret |-> Pending]
         ELSE [fut |-> [f EXCEPT !.done = TRUE, !.polls = @ + 1],
               ret |-> Ready(f.out)]

(***************************************************************************)
(* Constructors.  Each returns the wrapper, the futures after the call and *)
(* the polls of the inner future made during the call.                     *)
(***************************************************************************)
NoWrapper == [ty |-> "None", sub_fut |-> "null"]

\* futures::future::FutureExt::boxed(f): Box::pin(f), the future moves to
\* the heap and is not polled.
FutureExt_boxed(f, futs) == [futs EXCEPT ![f].loc = "heap"]

\* impl From<F> for MustFuture<F>
MustFuture_from(f, futs) ==
    [self |-> [ty |-> "MustFuture", sub_fut |-> f], futs |-> futs,
     calls |-> <<>>]

\* Variant of MustBoxFuture::new that polls the boxed future once, with a
\* no-op context, before wrapping it.
MustBoxFuture_new_eager(f, futs) ==
    LET b == FutureExt_boxed(f, futs)
        r == InnerPoll(b[f], "noop")
    IN  [self |-> [ty |-> "MustBoxFuture", sub_fut |-> f],
         futs |-> [b EXCEPT ![f] = r.fut],
         calls |-> <<[fut |-> f, cx |-> "noop", ret |-> r.ret]>>]

\* MustBoxFuture::new
MustBoxFuture_new(f, futs) ==
    [self |-> [ty |-> "MustBoxFuture", sub_fut |-> f],
     futs |-> FutureExt_boxed(f, futs), calls |-> <<>>]

\* Variant of must_box that wraps with the generic wrapper, not boxing.
must_box_generic(f, futs) ==
    [self |-> [ty |-> "MustFuture", sub_fut |-> f], futs |-> futs,
     calls |-> <<>>]

\* IntoMustBoxFuture::must_box
must_box(f, futs) == MustBoxFuture_new(f, futs)

\* impl From<BoxFuture<'lt, T>> for MustBoxFuture<'lt, T>
MustBoxFuture_from(f, futs) ==
    [self |-> [ty |-> "MustBoxFuture", sub_fut |-> f], futs |-> futs,
     calls |-> <<>>]

\* The call sites of the tests: `f.boxed().into()`, `MustBoxFuture::new(f)`,
\* `f.must_box()`, and `f.into()` for the generic wrapper.
Build(c, f, futs) ==
    CASE c = "from" -> MustFuture_from(f, futs)
      [] c = "box_from" -> MustBoxFuture_from(f, FutureExt_boxed(f, futs))
      [] c = "new" -> MustBoxFuture_new(f, futs)
      [] OTHER -> must_box(f, futs)

(***************************************************************************)
(* Poll.  Each returns the wrapper and the futures after the call, the     *)
(* Poll result handed back to the driver, and the polls of the inner       *)
(* future it made (which future, with which context, with what result).    *)
(***************************************************************************)
\* pin_utils::unsafe_pinned!(sub_fut: F): Pin<&mut Self> -> Pin<&mut F>
sub_fut_pinned(self) == self.sub_fut

\* Variant of MustFuture::poll that yields once of its own before the first
\* poll of the inner future.
MustFuture_poll_yield_first(self, cx, futs) ==
    LET p == self.sub_fut
        r == InnerPoll(futs[p], cx)
    IN  IF "yielded" \notin DOMAIN self
        THEN [self |-> [ty |-> self.ty, sub_fut |-> p, yielded |-> TRUE],
              futs |-> futs, ret |-> Pending, calls |-> <<>>]
        ELSE [self |-> self, futs |-> [futs EXCEPT ![p] = r.fut],
              ret |-> r.ret,
              calls |-> <<[fut |-> p, cx |-> cx, ret |-> r.ret]>>]

\* Variant of MustFuture::poll that polls the inner future with a no-op
\* context instead of the one it was given.
MustFuture_poll_noop_cx(self, cx, futs) ==
    LET p == self.sub_fut
        r == InnerPoll(futs[p], "noop")
    IN  [self |-> self, futs |-> [futs EXCEPT ![p] = r.fut], ret |-> r.ret,
         calls |-> <<[fut |-> p, cx |-> "noop", ret |-> r.ret]>>]

\* Variant of MustFuture::poll that re-points the wrapper at another future
\* once the inner one is done.
MustFuture_poll_swap(self, cx, futs) ==
    LET p == self.sub_fut
        r == InnerPoll(futs[p], cx)
    IN  [self |-> IF r.fut.done THEN [self EXCEPT !.sub_fut = "d"] ELSE self,
         futs |-> [futs EXCEPT ![p] = r.fut], ret |-> r.ret,
         calls |-> <<[fut |-> p, cx |-> cx, ret |-> r.ret]>>]

\* impl Future for MustFuture<F>
MustFuture_poll(self, cx, futs) ==
    LET p == sub_fut_pinned(self)
        r == InnerPoll(futs[p], cx)
    IN  [self |-> self, futs |-> [futs EXCEPT ![p] = r.fut], ret |-> r.ret,
         calls |-> <<[fut |-> p, cx |-> cx, ret |-> r.ret]>>]

\* Variant of MustBoxFuture::poll that polls the inner future again when it
\* was Pending, and returns the second result.
MustBoxFuture_poll_twice(self, cx, futs) ==
    LET p == self.sub_fut
        r1 == InnerPoll(futs[p], cx)
        r2 == InnerPoll(r1.fut, cx)
    IN  IF r1.ret = Pending
        THEN [self |-> self, futs |-> [futs EXCEPT ![p] = r2.fut],
              ret |-> r2.ret,
              calls |-> <<[fut |-> p, cx |-> cx, ret |-> r1.ret],
                          [fut |-> p, cx |-> cx, ret |-> r2.ret]>>]
        ELSE [self |-> self, futs |-> [futs EXCEPT ![p] = r1.fut],
              ret |-> r1.ret,
              calls |-> <<[fut |-> p, cx |-> cx, ret |-> r1.ret]>>]

\* Variant of MustBoxFuture::poll with a completion guard (a fuse): once
\* the inner future is done it answers Pending without polling it.
MustBoxFuture_poll_fused(self, cx, futs) ==
    LET p == self.sub_fut
        r == InnerPoll(futs[p], cx)
    IN  IF futs[p].done
        THEN [self |-> self, futs |-> futs, ret |-> Pending, calls |-> <<>>]
        ELSE [self |-> self, futs |-> [futs EXCEPT ![p] = r.fut],
              ret |-> r.ret,
              calls |-> <<[fut |-> p, cx |-> cx, ret |-> r.ret]>>]

\* impl Future for MustBoxFuture<'lt, T>
MustBoxFuture_poll(self, cx, futs) ==
    LET p == self.sub_fut
        r == InnerPoll(futs[p], cx)
    IN  [self |-> self, futs |-> [futs EXCEPT ![p] = r.fut], ret |-> r.ret,
         calls |-> <<[fut |-> p, cx |-> cx, ret |-> r.ret]>>]

\* Future::poll on a wrapper, dispatched on its type.
WrapperPoll(self, cx, futs) ==
    IF self.ty = "MustFuture"
    THEN MustFuture_poll(self, cx, futs)
    ELSE MustBoxFuture_poll(self, cx, futs)

(***************************************************************************)
(* Debug.  f.debug_struct(name).finish() with no field added writes the    *)
(* name alone; with fields it writes `name { field: value, .. }`.          *)
(***************************************************************************)
RECURSIVE FieldList(_)
FieldList(fields) ==
    IF Len(fields) = 0 THEN ""
    ELSE IF Len(fields) = 1 THEN fields[1]
    ELSE fields[1] \o ", " \o FieldList(Tail(fields))

DebugStructFinish(name, fields) ==
    IF Len(fields) = 0 THEN name
    ELSE name \o " { " \o FieldList(fields) \o " }"

\* impl Debug for MustFuture<F>
MustFuture_fmt(self, futs) ==
    [text |-> DebugStructFinish("MustFuture", <<>>), futs |-> futs,
     calls |-> <<>>]

\* Variant of the Debug impl that adds the sub_fut field, as a derived Debug
\* would.
MustBoxFuture_fmt_fields(self, futs) ==
    [text |-> DebugStructFinish("MustBoxFuture",
                 <<"sub_fut: " \o (IF futs[self.sub_fut].done
                                   THEN "Done" ELSE "Running")>>),
     futs |-> futs, calls |-> <<>>]

\* impl Debug for MustBoxFuture<'lt, T>
MustBoxFuture_fmt(self, futs) ==
    [text |-> DebugStructFinish("MustBoxFuture", <<>>), futs |-> futs,
     calls |-> <<>>]

WrapperFmt(self, futs) ==
    IF self.ty = "MustFuture"
    THEN MustFuture_fmt(self, futs)
    ELSE MustBoxFuture_fmt(self, futs)

(***************************************************************************)
(* Drop glue: neither wrapper implements Drop, so dropping the wrapper     *)
(* drops its only field; for the boxed future that frees the allocation.   *)
(***************************************************************************)
MustFuture_drop(self, futs) ==
    [futs EXCEPT ![self.sub_fut].drops = @ + 1]

\* Variant of the drop glue that leaks the allocation (Box::leak,
\* ManuallyDrop): the inner future is never dropped.
MustBoxFuture_drop_leak(self, futs) == futs

MustBoxFuture_drop(self, futs) ==
    [futs EXCEPT ![self.sub_fut].drops = @ + 1, ![self.sub_fut].loc = "freed"]

WrapperDrop(self, futs) ==
    IF self.ty = "MustFuture"
    THEN MustFuture_drop(self, futs)
    ELSE MustBoxFuture_drop(self, futs)

(***************************************************************************)
(* The state machine.                                                      *)
(***************************************************************************)
NoCall == [op |-> "init", slot |-> "-", cx |-> "-", ret |-> NoRet,
           text |-> "", calls |-> <<>>]

Init ==
    /\ input \in [n : 0..MaxPending, out : Outputs, post : PostKinds]
    /\ fut = [s \in Slots |-> NewFuture(input.n, input.out, input.post)]
    /\ held = Slots
    /\ wrapper = [s \in WSlots |-> NoWrapper]
    /\ ctor = [s \in WSlots |-> "none"]
    /\ life = [s \in WSlots |-> "unbuilt"]
    /\ wlog = [s \in Slots |-> <<>>]
    /\ last = NoCall

\* The caller wraps the future s with constructor c.
Construct(s, c) ==
    /\ life[s] = "unbuilt"
    /\ s \in held
    /\ LET r == Build(c, s, fut)
       IN  /\ wrapper' = [wrapper EXCEPT ![s] = r.self]
           /\ fut' = r.futs
           /\ last' = [op |-> "construct", slot |-> s, cx |-> "-",
                       ret |-> NoRet, text |-> "", calls |-> r.calls]
    /\ held' = held \ {s}
    /\ ctor' = [ctor EXCEPT ![s] = c]
    /\ life' = [life EXCEPT ![s] = "live"]
    /\ UNCHANGED <<input, wlog>>

\* The driver polls the wrapper in slot s with context cx.
Poll(s, cx) ==
    /\ life[s] = "live"
    /\ Len(wlog[s]) < MaxPolls
    /\ LET r == WrapperPoll(wrapper[s], cx, fut)
       IN  /\ wrapper' = [wrapper EXCEPT ![s] = r.self]
           /\ fut' = r.futs
           /\ wlog' = [wlog EXCEPT ![s] = Append(@, r.ret)]
           /\ last' = [op |-> "poll", slot |-> s, cx |-> cx, ret |-> r.ret,
                       text |-> "", calls |-> r.calls]
    /\ UNCHANGED <<input, held, ctor, life>>

\* The driver polls the unwrapped future "d" directly.
PollDirect(cx) ==
    /\ "d" \in held
    /\ Len(wlog["d"]) < MaxPolls
    /\ LET r == InnerPoll(fut["d"], cx)
       IN  /\ fut' = [fut EXCEPT !["d"] = r.fut]
           /\ wlog' = [wlog EXCEPT !["d"] = Append(@, r.ret)]
           /\ last' = [op |-> "poll", slot |-> "d", cx |-> cx, ret |-> r.ret,
                       text |-> "",
                       calls |-> <<[fut |-> "d", cx |-> cx, ret |-> r.ret]>>]
    /\ UNCHANGED <<input, held, wrapper, ctor, life>>

\* format!("{:?}", wrapper)
Fmt(s) ==
    /\ life[s] = "live"
    /\ LET r == WrapperFmt(wrapper[s], fut)
       IN  /\ fut' = r.futs
           /\ last' = [op |-> "fmt", slot |-> s, cx |-> "-", ret |-> NoRet,
                       text |-> r.text, calls |-> r.calls]
    /\ UNCHANGED <<input, held, wrapper, ctor, life, wlog>>

\* The wrapper in slot s goes out of scope.
Drop(s) ==
    /\ life[s] = "live"
    /\ fut' = WrapperDrop(wrapper[s], fut)
    /\ life' = [life EXCEPT ![s] = "dropped"]
    /\ last' = [op |-> "drop", slot |-> s, cx |-> "-", ret |-> NoRet,
                text |-> "", calls |-> <<>>]
    /\ UNCHANGED <<input, held, wrapper, ctor, wlog>>

Next ==
    \/ \E s \in WSlots : \E c \in Ctors(s) : Construct(s, c)
    \/ \E s \in WSlots : \E cx \in Contexts : Poll(s, cx)
    \/ \E cx \in Contexts : PollDirect(cx)
    \/ \E s \in WSlots : Fmt(s)
    \/ \E s \in WSlots : Drop(s)

Spec == Init /\ [][Next]_vars

(***************************************************************************)
(* Properties.                                                             *)
(***************************************************************************)
Min(a, b) == IF a < b THEN a ELSE b

\* Two sequences of Poll results agree as far as both go.
PrefixAgree(a, b) == \A i \in 1..Min(Len(a), Len(b)) : a[i] = b[i]

\* The results a driver sees are n Pending, then Ready(out).
DrivesLikeInput(log) ==
    \A i \in 1..Len(log) :
        /\ i <= input.n => log[i] = Pending
        /\ i = input.n + 1 => log[i] = Ready(input.out)

\* The wrapper in slot s had returned Ready before its latest poll.
ReadyBeforeLast(s) ==
    \E i \in 1..(Len(wlog[s]) - 1) : wlog[s][i].tag = "Ready"

\* C1: polling MustFuture::from(C) gives the driver the same sequence of
\* Poll results as polling C directly: n Pending, then Ready with C's
\* output, untransformed.
PassThroughGeneric ==
    ctor["w"] = "from" =>
        /\ PrefixAgree(wlog["w"], wlog["d"])
        /\ DrivesLikeInput(wlog["w"])

PassThroughGenericWitness ==
    /\ ctor["w"] = "from"
    /\ input.n >= 1
    /\ Len(wlog["w"]) = input.n + 1
    /\ Len(wlog["d"]) = input.n + 1

\* C2: a MustBoxFuture built by From<BoxFuture> or by MustBoxFuture::new
\* returns from each poll exactly what the heap-resident inner future
\* returned, so it drives like the inner future polled directly.
PassThroughBoxed ==
    \A s \in WSlots :
        ctor[s] \in {"box_from", "new"} =>
            /\ PrefixAgree(wlog[s], wlog["d"])
            /\ DrivesLikeInput(wlog[s])
            /\ life[s] = "live" => fut[s].loc = "heap"
            /\ (last.op = "poll" /\ last.slot = s) =>
                   /\ Len(last.calls) = 1
                   /\ last.ret = last.calls[1].ret

PassThroughBoxedWitness ==
    /\ ctor["w"] = "box_from"
    /\ ctor["r"] = "new"
    /\ input.n >= 1
    /\ Len(wlog["w"]) = input.n + 1
    /\ Len(wlog["r"]) = input.n + 1
    /\ Len(wlog["d"]) = input.n + 1

\* The fixed label of a wrapper type.
Label(ty) == IF ty = "MustBoxFuture" THEN "MustBoxFuture" ELSE "MustFuture"

\* C4: whenever a wrapper is Debug-formatted, whatever the state of its
\* inner future, the text is the wrapper type's fixed label, and the step
\* neither polls nor changes the inner future or the wrapper.
DebugStable ==
    [][last'.op = "fmt" =>
          /\ last'.text = Label(wrapper[last'.slot].ty)
          /\ last'.calls = <<>>
          /\ fut' = fut
          /\ wrapper' = wrapper]_vars

DebugStableWitness ==
    /\ last.op = "fmt"
    /\ last.slot = "w"
    /\ ctor["w"] = "box_from"
    /\ fut["w"].polls >= 1
    /\ ~fut["w"].done

\* C5: a wrapper built by f.must_box() and one built by
\* MustBoxFuture::new(f) have the same type, hold their future the same
\* way, give the same Poll results poll for poll and the same Debug text.
FluentEquivalence ==
    (ctor["w"] = "must_box" /\ ctor["r"] = "new") =>
        /\ wrapper["w"].ty = wrapper["r"].ty
        /\ PrefixAgree(wlog["w"], wlog["r"])
        /\ (Len(wlog["w"]) = Len(wlog["r"]) /\ life["w"] = life["r"]) =>
               fut["w"] = fut["r"]
        /\ (last.op = "fmt" /\ last.slot = "w" /\ life["r"] = "live") =>
               last.text = WrapperFmt(wrapper["r"], fut).text

FluentEquivalenceWitness ==
    /\ ctor["w"] = "must_box"
    /\ ctor["r"] = "new"
    /\ input.n >= 1
    /\ Len(wlog["w"]) = input.n + 1
    /\ Len(wlog["r"]) = input.n + 1
    /\ last.op = "fmt"
    /\ last.slot = "w"
    /\ life["r"] = "live"

\* C6: the inner future of a wrapper is dropped exactly once, by the drop
\* of the wrapper, and is never polled or otherwise touched afterwards.
DropCancels ==
    /\ [](\A s \in WSlots :
             fut[s].drops = IF life[s] = "dropped" THEN 1 ELSE 0)
    /\ [][\A s \in WSlots : life[s] = "dropped" => fut'[s] = fut[s]]_vars

DropCancelsWitness ==
    /\ life["w"] = "dropped"
    /\ wrapper["w"].ty = "MustBoxFuture"
    /\ fut["w"].polls >= 1
    /\ ~fut["w"].done
    /\ last.op = "poll"

\* C7: no constructor polls the inner future: a wrapper that has not been
\* polled holds an inner future that was polled zero times and is in its
\* initial state; and a constructor can always be applied.
LazyConstruction ==
    /\ last.op = "construct" =>
           /\ last.calls = <<>>
           /\ life[last.slot] = "live"
    /\ \A s \in WSlots :
           /\ (life[s] = "live" /\ wlog[s] = <<>>) =>
                  /\ fut[s].polls = 0
                  /\ fut[s].remaining = input.n
                  /\ ~fut[s].done
           /\ life[s] = "unbuilt" =>
                  \A c \in Ctors(s) : ENABLED Construct(s, c)

LazyConstructionWitness ==
    /\ last.op = "construct"
    /\ last.slot = "w"
    /\ ctor["w"] = "must_box"
    /\ ctor["r"] = "new"
    /\ wlog["r"] = <<>>
    /\ input.n >= 1

\* C8: each poll of a wrapper polls its inner future exactly once, with
\* the context it was given, and returns that poll's result; after k polls
\* of the wrapper the inner future has been polled k times.
OneToOneDelegation ==
    /\ (last.op = "poll" /\ last.slot \in WSlots) =>
           /\ Len(last.calls) = 1
           /\ last.calls[1].fut = last.slot
           /\ last.calls[1].cx = last.cx
           /\ last.calls[1].ret = last.ret
    /\ \A s \in WSlots : fut[s].polls = Len(wlog[s])

OneToOneDelegationWitness ==
    /\ last.op = "poll"
    /\ last.slot = "w"
    /\ last.cx = "cx2"
    /\ wrapper["w"].ty = "MustFuture"
    /\ Len(wlog["w"]) >= 2

\* C9: a poll of a wrapper that already returned Ready is forwarded to the
\* inner future, and the driver sees what the inner future does past
\* completion; the wrapper has no field that records completion.
NoCompletionGuard ==
    \A s \in WSlots :
        (last.op = "poll" /\ last.slot = s /\ ReadyBeforeLast(s)) =>
            /\ Len(last.calls) = 1
            /\ last.calls[1].fut = s
            /\ last.ret = last.calls[1].ret
            /\ last.ret = PostResult(input)
            /\ DOMAIN wrapper[s] = {"ty", "sub_fut"}

NoCompletionGuardWitness ==
    /\ last.op = "poll"
    /\ last.slot = "w"
    /\ ReadyBeforeLast("w")
    /\ wrapper["w"].ty = "MustBoxFuture"
    /\ input.post = "pending"

\* C10: from construction on, a wrapper holds exactly one inner future, the
\* one it was constructed with; no other wrapper and no caller holds it.
SingleInner ==
    \A s \in WSlots :
        /\ life[s] = "unbuilt" => wrapper[s] = NoWrapper
        /\ life[s] # "unbuilt" =>
               /\ DOMAIN wrapper[s] = {"ty", "sub_fut"}
               /\ wrapper[s].sub_fut = s
               /\ s \notin held
               /\ \A o \in WSlots \ {s} : wrapper[o].sub_fut # s

SingleInnerWitness ==
    /\ life["w"] = "live"
    /\ life["r"] = "dropped"
    /\ wrapper["w"].ty = "MustFuture"
    /\ ReadyBeforeLast("w")

====
